---- MODULE Spec2Model ----
(***************************************************************************)
(* Model of static/script.js: a DOMContentLoaded listener that, for every  *)
(* element matching ".flash" when it runs, arms a 3000 ms one-shot timer   *)
(* whose callback writes  f.style.opacity = 0.                             *)
(*                                                                         *)
(* The script runs inside a hosting page.  The page is modelled by the     *)
(* document lifecycle (readyState, the DOMContentLoaded dispatch), the     *)
(* clock, the timer task queue and the DOM mutations other code of the     *)
(* page may perform (inserting / removing elements, adding / removing the  *)
(* class).  Elements are HTML elements: each has a style object, attached  *)
(* to a document or not.  Timers are minimum delays: a timer that is due   *)
(* runs as a task of its own, at any later point of the event loop, and    *)
(* due timers are allowed to run in any order.  The script is the only     *)
(* writer of style.opacity that is modelled, so every change of an opacity *)
(* is the script's doing.  The document dispatches DOMContentLoaded once.  *)
(***************************************************************************)
EXTENDS Integers, Sequences, FiniteSets, TLC

\* ---------------------------------------------------------------- bounds
\* number of elements; clock step and clock ceiling in milliseconds
NumElems == 3
TickMs == 3000
MaxTime == 6000

Elems == 1..NumElems
DocOrder == [e \in Elems |-> e]

\* ------------------------------------------------------ program constants
\* setTimeout(..., 3000)
DelayOmitted == 0 * 3000
Delay == 3000

\* f.style.opacity = 0 : the number the callback assigns
OpacityWritten == 0

\* the CSSOM stores the assigned number as its string form
CssText(n) == ToString(n)

\* document.addEventListener("DOMContentLoaded", ...)
EventTypeReadyStateChange == "readystatechange"
EventType == "DOMContentLoaded"

\* the inline opacity an element carries before the script touches it
InitialOpacity(e) == IF e % 2 = 1 THEN "" ELSE "0.5"

VARIABLES
    readyState,   \* document.readyState
    dclFired,     \* the browser has dispatched DOMContentLoaded
    registered,   \* the script has executed addEventListener
    regLate,      \* history: DOMContentLoaded was already dispatched then
    inDoc,        \* element is attached to the document
    hasFlash,     \* element carries class "flash"
    opacity,      \* element.style.opacity
    now,          \* clock, ms
    timers,       \* armed timers: sequence of [f, due]
    handlerRuns,  \* history: executions of the listener body
    matched,      \* history: elements in the document with the class at trigger
    trigTime,     \* history: clock at trigger
    scheduled,    \* history: setTimeout calls per captured element
    writes,       \* history: values the script wrote to each element's opacity
    ranGone,      \* history: some callback ran while its element was detached
                  \*          and no longer carried the class
    error         \* an uncaught exception was raised by the script

vars == <<readyState, dclFired, registered, regLate, inDoc, hasFlash, opacity,
          now, timers, handlerRuns, matched, trigTime, scheduled, writes,
          ranGone, error>>

lifecycleVars == <<readyState, dclFired>>
domVars == <<inDoc, hasFlash>>
scriptVars == <<timers, handlerRuns, matched, trigTime, scheduled>>
timerVars == <<opacity, writes, ranGone, error>>

Min(a, b) == IF a <= b THEN a ELSE b

\* ------------------------------------------------------------- the script

\* document.querySelectorAll(".flash"): static list, document order
QuerySelectorFirst ==
    LET all == SelectSeq(DocOrder, LAMBDA e : inDoc[e] /\ hasFlash[e])
    IN  IF all = <<>> THEN <<>> ELSE <<Head(all)>>
QuerySelectorEveryElement == SelectSeq(DocOrder, LAMBDA e : inDoc[e])
QuerySelectorAll == SelectSeq(DocOrder, LAMBDA e : inDoc[e] /\ hasFlash[e])

\* flashes.forEach(f => setTimeout(() => ..., 3000)): one timer per entry,
\* each closure capturing its own f
ScheduleAllSharedBinding(flashes, t) ==
    [k \in 1..Len(flashes) |-> [f |-> flashes[Len(flashes)], due |-> t + Delay]]
ScheduleAllSkipFirst(flashes, t) ==
    [k \in 1..(Len(flashes) - 1) |-> [f |-> flashes[k + 1], due |-> t + Delay]]
ScheduleAll(flashes, t) ==
    [k \in 1..Len(flashes) |-> [f |-> flashes[k], due |-> t + Delay]]

\* f.style : the style object of the captured element, as the set of the
\* elements it styles; the empty set stands for undefined / null
StyleOfAttached(f) == IF inDoc[f] THEN {f} ELSE {}
StyleOfStillFlash(f) == IF hasFlash[f] THEN {f} ELSE {}
StyleOf(f) == {f}

\* setTimeout is one-shot: the timer is gone once its callback has been run
AfterFireInterval(i) == [timers EXCEPT ![i].due = timers[i].due + Delay]
AfterFire(i) == SubSeq(timers, 1, i - 1) \o SubSeq(timers, i + 1, Len(timers))

CountOf(seq, e) == Cardinality({k \in 1..Len(seq) : seq[k].f = e})

\* the listener body
Handler ==
    /\ now + Delay <= MaxTime      \* clock ceiling: every armed timer can come due
    /\ LET flashes == QuerySelectorAll
           new == ScheduleAll(flashes, now)
       IN  /\ timers' = timers \o new
           /\ scheduled' = [e \in Elems |-> scheduled[e] + CountOf(new, e)]
    /\ handlerRuns' = handlerRuns + 1
    /\ matched' = {e \in Elems : inDoc[e] /\ hasFlash[e]}
    /\ trigTime' = now

\* the browser dispatches an event of type ev at the document
Dispatch(ev) ==
    IF registered /\ EventType = ev
    THEN Handler
    ELSE UNCHANGED scriptVars

\* the script is executed: it registers the listener and does nothing else
ScriptRunReadyStateAware ==
    /\ ~registered
    /\ registered' = TRUE
    /\ regLate' = dclFired
    /\ IF readyState # "loading" THEN Handler ELSE UNCHANGED scriptVars
    /\ UNCHANGED <<lifecycleVars, domVars, timerVars, now>>
ScriptRun ==
    /\ ~registered
    /\ registered' = TRUE
    /\ regLate' = dclFired
    /\ UNCHANGED <<lifecycleVars, domVars, scriptVars, timerVars, now>>

\* the timer callback, run as a task once its delay has passed
RunTimer(i) ==
    /\ i \in 1..Len(timers)
    /\ timers[i].due <= now
    /\ LET f == timers[i].f
           st == StyleOf(f)
       IN  /\ IF st = {}
              THEN /\ error' = TRUE
                   /\ UNCHANGED <<opacity, writes>>
              ELSE /\ opacity' = [e \in Elems |->
                                    IF e \in st THEN CssText(OpacityWritten) ELSE opacity[e]]
                   /\ writes' = [e \in Elems |->
                                   IF e \in st THEN Append(writes[e], CssText(OpacityWritten))
                                   ELSE writes[e]]
                   /\ UNCHANGED error
           /\ ranGone' = (ranGone \/ (~inDoc[f] /\ ~hasFlash[f]))
    /\ timers' = AfterFire(i)
    /\ UNCHANGED <<lifecycleVars, registered, regLate, domVars, now,
                   handlerRuns, matched, trigTime, scheduled>>

\* --------------------------------------------------------- the host page

BecomeInteractive ==
    /\ readyState = "loading"
    /\ readyState' = "interactive"
    /\ Dispatch("readystatechange")
    /\ UNCHANGED <<dclFired, registered, regLate, domVars, timerVars, now>>

FireDOMContentLoaded ==
    /\ readyState = "interactive"
    /\ ~dclFired
    /\ dclFired' = TRUE
    /\ Dispatch("DOMContentLoaded")
    /\ UNCHANGED <<readyState, registered, regLate, domVars, timerVars, now>>

BecomeComplete ==
    /\ readyState = "interactive"
    /\ dclFired
    /\ readyState' = "complete"
    /\ Dispatch("readystatechange")
    /\ UNCHANGED <<dclFired, registered, regLate, domVars, timerVars, now>>

Tick ==
    /\ now < MaxTime
    /\ now' = Min(now + TickMs, MaxTime)
    /\ UNCHANGED <<lifecycleVars, registered, regLate, domVars, scriptVars, timerVars>>

InsertElement(e) ==
    /\ ~inDoc[e]
    /\ inDoc' = [inDoc EXCEPT ![e] = TRUE]
    /\ UNCHANGED <<lifecycleVars, registered, regLate, hasFlash, scriptVars, timerVars, now>>

RemoveElement(e) ==
    /\ inDoc[e]
    /\ inDoc' = [inDoc EXCEPT ![e] = FALSE]
    /\ UNCHANGED <<lifecycleVars, registered, regLate, hasFlash, scriptVars, timerVars, now>>

AddClass(e) ==
    /\ ~hasFlash[e]
    /\ hasFlash' = [hasFlash EXCEPT ![e] = TRUE]
    /\ UNCHANGED <<lifecycleVars, registered, regLate, inDoc, scriptVars, timerVars, now>>

RemoveClass(e) ==
    /\ hasFlash[e]
    /\ hasFlash' = [hasFlash EXCEPT ![e] = FALSE]
    /\ UNCHANGED <<lifecycleVars, registered, regLate, inDoc, scriptVars, timerVars, now>>

Init ==
    /\ readyState = "loading"
    /\ dclFired = FALSE
    /\ registered = FALSE
    /\ regLate = FALSE
    /\ inDoc \in [Elems -> BOOLEAN]
    /\ hasFlash \in [Elems -> BOOLEAN]
    /\ opacity = [e \in Elems |-> InitialOpacity(e)]
    /\ now = 0
    /\ timers = <<>>
    /\ handlerRuns = 0
    /\ matched = {}
    /\ trigTime = 0
    /\ scheduled = [e \in Elems |-> 0]
    /\ writes = [e \in Elems |-> <<>>]
    /\ ranGone = FALSE
    /\ error = FALSE

Next ==
    \/ ScriptRun
    \/ BecomeInteractive
    \/ FireDOMContentLoaded
    \/ BecomeComplete
    \/ Tick
    \/ \E i \in 1..Len(timers) : RunTimer(i)
    \/ \E e \in Elems : InsertElement(e)
    \/ \E e \in Elems : RemoveElement(e)
    \/ \E e \in Elems : AddClass(e)
    \/ \E e \in Elems : RemoveClass(e)

Spec == Init /\ [][Next]_vars

\* the event loop keeps running: the clock advances and due timers are run
FairSpec ==
    /\ Spec
    /\ WF_vars(Tick)
    /\ WF_vars(\E i \in 1..Len(timers) : RunTimer(i))

\* ------------------------------------------------------------ properties

Pending(e) == \E k \in 1..Len(timers) : timers[k].f = e
Zero == CssText(OpacityWritten)
Untouched(e) == opacity[e] = InitialOpacity(e) /\ writes[e] = <<>>
\* the 3000 milliseconds the specification names
FixedDelayMs == 3 * 1000

\* C1: once the handler has run on a document with N elements carrying the
\* class, exactly one timer has been scheduled for each of them and none for
\* any other element; with N = 0 nothing is scheduled and nothing throws;
\* nothing is scheduled before the handler runs.
C1_ExactlyOnePerMatch ==
    /\ handlerRuns = 0 =>
          /\ timers = <<>>
          /\ \A e \in Elems : scheduled[e] = 0
    /\ handlerRuns >= 1 =>
          /\ \A e \in Elems : scheduled[e] = (IF e \in matched THEN 1 ELSE 0)
          /\ Len(timers) <= Cardinality(matched)
          /\ matched = {} => (timers = <<>> /\ ~error)

C1_Witness ==
    /\ handlerRuns = 1
    /\ Cardinality(matched) = 2
    /\ Len(timers) = 2
    /\ \E e \in Elems \ matched : inDoc[e] /\ scheduled[e] = 0

\* C2 (as stated): a matched element keeps its default opacity until its
\* deferred action runs, and its opacity is 0 at every time at or after
\* 3000 ms past the trigger.
C2_ZeroFromDelayOn ==
    handlerRuns = 1 =>
        \A e \in matched :
            /\ writes[e] = <<>> => opacity[e] = InitialOpacity(e)
            /\ now >= trigTime + FixedDelayMs => opacity[e] = Zero

\* C2 (amended): a matched element keeps its default opacity until its
\* deferred action runs; that action never runs earlier than 3000 ms past
\* the trigger, and from then on the opacity is 0.
C2_ZeroOnceTimerRan ==
    handlerRuns = 1 =>
        \A e \in matched :
            IF writes[e] = <<>>
            THEN opacity[e] = InitialOpacity(e)
            ELSE opacity[e] = Zero /\ now >= trigTime + FixedDelayMs

C2_Witness ==
    /\ handlerRuns = 1
    /\ \E e \in matched : writes[e] # <<>> /\ opacity[e] = Zero
    /\ \E e \in matched :
          writes[e] = <<>> /\ opacity[e] = InitialOpacity(e) /\ now >= trigTime + FixedDelayMs

\* C3: an element that did not match at trigger time is never written by the
\* script: its opacity is the one it started with, in every reachable state.
C3_UnmatchedUntouched ==
    \A e \in Elems \ matched : Untouched(e)

C3_Witness ==
    /\ handlerRuns = 1
    /\ timers = <<>>
    /\ Cardinality(matched) = 2
    /\ \A e \in matched : opacity[e] = Zero
    /\ \E e \in Elems \ matched : inDoc[e] /\ ~hasFlash[e] /\ Untouched(e)

\* C4: a matched element that is detached when its deferred action runs
\* raises no error, and every matched element whose action has run, the
\* detached one included, has been set to 0.
C4_RemovalIsHarmless ==
    /\ ~error
    /\ \A e \in matched : ~Pending(e) => opacity[e] = Zero

C4_Witness ==
    /\ ranGone
    /\ ~error
    /\ timers = <<>>
    /\ Cardinality(matched) >= 2
    /\ \E e \in matched : ~inDoc[e] /\ opacity[e] = Zero
    /\ \E e \in matched : inDoc[e] /\ opacity[e] = Zero

\* C5: the handler body executes at most once, and no element ever has more
\* than one deferred action scheduled for it.
C5_AtMostOnce ==
    /\ handlerRuns <= 1
    /\ \A e \in Elems : scheduled[e] <= 1
    /\ \A e \in Elems : Cardinality({k \in 1..Len(timers) : timers[k].f = e}) <= 1

C5_Witness ==
    /\ handlerRuns = 1
    /\ readyState = "complete"
    /\ \E e \in matched : scheduled[e] = 1

\* C6: a step of the script changes the opacity of at most one element, one
\* that has a pending deferred action of its own; and whatever the order in
\* which the pending actions ran, once none is left every matched element is
\* at 0 and every other element is as it was.
C6_OwnElementOnly ==
    \A e \in Elems :
        opacity'[e] # opacity[e] =>
            /\ Pending(e)
            /\ opacity'[e] = Zero
            /\ \A d \in Elems \ {e} : opacity'[d] = opacity[d]

C6_FinalState ==
    (handlerRuns = 1 /\ timers = <<>>) =>
        \A e \in Elems : opacity[e] = (IF e \in matched THEN Zero ELSE InitialOpacity(e))

\* C6: both parts together, over every behaviour
C6_Independent == [][C6_OwnElementOnly]_vars /\ []C6_FinalState

\* a later element was written while an earlier one is still pending
C6_Witness ==
    /\ handlerRuns = 1
    /\ \E e1, e2 \in matched :
          /\ e1 < e2
          /\ Pending(e1) /\ opacity[e1] = InitialOpacity(e1)
          /\ ~Pending(e2) /\ opacity[e2] = Zero

\* C7: the set of elements to fade is fixed at trigger time: an element that
\* did not match then is never scheduled and never written, whatever class it
\* gains later, and an element that matched then is set to 0 by its action
\* whether or not it still carries the class.
C7_FixedAtTrigger ==
    handlerRuns >= 1 =>
        /\ \A e \in Elems \ matched : scheduled[e] = 0 /\ ~Pending(e) /\ Untouched(e)
        /\ \A e \in matched : Pending(e) \/ opacity[e] = Zero

C7_Witness ==
    /\ handlerRuns = 1
    /\ timers = <<>>
    /\ ranGone
    /\ \E e \in matched : ~hasFlash[e] /\ opacity[e] = Zero
    /\ \E e \in Elems \ matched : inDoc[e] /\ hasFlash[e] /\ Untouched(e)

\* C8: the script writes each element's opacity at most once, the only value
\* it writes is 0, and a matched element with no pending action left has been
\* written exactly once.
C8_SingleWriteOfZero ==
    \A e \in Elems :
        /\ writes[e] \in {<<>>, <<Zero>>}
        /\ writes[e] # <<>> => opacity[e] = Zero
        /\ (e \in matched /\ ~Pending(e)) => writes[e] = <<Zero>>

C8_Witness ==
    /\ handlerRuns = 1
    /\ now = MaxTime
    /\ timers = <<>>
    /\ matched # {}
    /\ \A e \in matched : writes[e] = <<Zero>>

\* C9: no deferred action is cancelled: under a fair event loop, once the
\* handler has run the script reaches, and stays in, the state where no timer
\* is pending, every scheduled action has run and every matched element is
\* at 0.
Quiesced ==
    /\ timers = <<>>
    /\ \A e \in Elems : Len(writes[e]) = scheduled[e]
    /\ \A e \in matched : scheduled[e] = 1 /\ opacity[e] = Zero

\* C9: the handler having run leads to permanent quiescence
C9_Quiesces == (handlerRuns = 1) ~> []Quiesced

C9_Witness ==
    /\ handlerRuns = 1
    /\ Quiesced
    /\ Cardinality(matched) >= 2
    /\ readyState = "complete"

\* C10: when the listener is registered after DOMContentLoaded has been
\* dispatched, the handler never runs, nothing is ever scheduled and every
\* element keeps the opacity it started with.
C10_LateRegistrationIsInert ==
    regLate =>
        /\ handlerRuns = 0
        /\ timers = <<>>
        /\ \A e \in Elems : scheduled[e] = 0 /\ Untouched(e)

C10_Witness ==
    /\ regLate
    /\ registered
    /\ readyState = "complete"
    /\ now = MaxTime
    /\ \E e \in Elems : inDoc[e] /\ hasFlash[e] /\ opacity[e] = InitialOpacity(e)

====
